---- MODULE Spec2Model ----
(***************************************************************************)
(* The client side response-delivery pipeline of the portfolio assistant:  *)
(*   - TerminalInterface (the turn coordinator): handleMessageSend,        *)
(*     sendMessageToServer with its two polling waits, the 50 ms dissolve  *)
(*     timer, handleResponseReceived and the onDissolveComplete callback;  *)
(*   - ChatManager (the dispatcher): handleWebSocketMessage, sendMessage;  *)
(*   - ResponseEmergence: the dissolution effect and its gsap tween;       *)
(*   - MessageDebouncer (the gate): sendMessage and its debounce timer.    *)
(*                                                                         *)
(* Time is in milliseconds.  Every setTimeout is a countdown; Tick lets    *)
(* time pass up to the nearest deadline, and a countdown that reached 0    *)
(* must fire before time passes again.  A text is a sequence of chunk      *)
(* identifiers; the empty sequence is the empty string.                    *)
(***************************************************************************)
EXTENDS Integers, Sequences, FiniteSets, TLC

\* ---------------------------------------------------------------- bounds
MaxSubmits == 3
MaxStreamTurns == 2
NumChunks == 2
MaxLatePolls == 14
MaxCalls == 3
MaxWire == 4
MaxCloses == 2
MaxVisitors == 2
MaxErrorTurns == 2
MaxConnTurns == 2
MaxDelivered == 1
MaxAlerts == 1
MaxFrameTurns == 2
MaxNoise == 1

\* ------------------------------------------------------ program constants
\* RESPONSE_ANIMATION_CONFIG, in milliseconds:
\* (EMERGENCE_DURATION + EMERGENCE_STAGGER) * 1000 and
\* (DISSOLUTION_DURATION + DISSOLUTION_STAGGER) * 1000
EMERGENCE_TOTAL_MS == 1200
DISSOLUTION_TOTAL_MS == 1300
TIMING_BUFFER == 0
Max(a, b) == IF a >= b THEN a ELSE b
MAX_ANIMATION_MS == Max(EMERGENCE_TOTAL_MS, DISSOLUTION_TOTAL_MS)
MINIMUM_API_INTERVAL_MS == MAX_ANIMATION_MS + TIMING_BUFFER
maxWaitResponse == 10000
maxWaitDissolution == 5000
pollInterval == 100
DissolveDelay == 50
RespondDelay == 300
DissolveTweenMs == 900
debounceTime == 1500
ResendDelay == 100
ReconnectDelay == 3000
WordLimit == 200

Turns == 1..MaxSubmits
NoTimer == -1
Empty == << >>

\* chunk k of the answer to turn t, and the whole answer
Chunk(t, k) == 10 * t + k
Answer(t) == [k \in 1..NumChunks |-> Chunk(t, k)]
TurnOf(text) == text[1] \div 10

VARIABLES
    interactionState,          \* useState<InteractionState>
    currentResponse,           \* useState<string>: the displayed answer
    pendingResponseRef,        \* useRef<string> (mirrors pendingResponse)
    isDissolutionCompleteRef,  \* useRef<boolean>
    shouldDissolveResponse,    \* useState<boolean>
    tasks,                     \* the running sendMessageToServer calls
    dissolveTimer,             \* per submission: the 50 ms setTimeout
    respondTimer,              \* per ai_response: the 300 ms setTimeout
    dissolveTween,             \* remaining time of the gsap dissolve tween
    server,                    \* per turn: how far the server's reply is
    streamed,                  \* per turn: chunk frames delivered
    redelivered,               \* per turn: chunk frames delivered again
    submitted,                 \* number of submissions made
    freshSubmit,               \* a submission was made since the answer showed
    pendingDup,                \* the buffer holds a redelivered chunk
    shownDup,                  \* the displayed answer is a redelivered chunk
    isConnected,               \* ChatManager: useState(false), the socket is open
    isDebouncing,              \* MessageDebouncer: useState(false)
    pendingMessage,            \* MessageDebouncer: useState<string | null>
    exposed,                   \* what window.sendMessage closes over
    debounceTimers,            \* the armed debounce timeouts
    resendTimers,              \* the armed 100 ms timeouts that send a pending message
    wire,                      \* the user_message frames written to the socket
    calls,                     \* number of calls of window.sendMessage
    lastHeld,                  \* the message of the latest call that was held
    returned,                  \* what the latest sendMessage of the gate returned
    answerWindow,              \* the frames on the wire that were answered, and the
                               \* time left of debounceTime since the last answer
    visitorId,                 \* ChatManager: useState<string>('')
    wsReadyState,              \* readyState of wsRef.current
    wsVisitor,                 \* the visitor_id in the URL of wsRef.current
    reconnectTimer,            \* the armed 3000 ms timeout of ws.onclose
    closes,                    \* number of closes of the channel
    orphans,                   \* sockets still connecting or open that wsRef
                               \* no longer refers to
    mounted,                   \* ChatManager is mounted
    hasBootedUp,               \* TerminalInterface: useState(false)
    inputValue,                \* TerminalInput: useState('')
    delivered,                 \* the messages handed to onMessageSend
    alerts,                    \* number of alerts shown by TerminalInput
    consoleLog                 \* the frames that were only logged to the console,
                               \* each with the number of turns ended before it

uiVars == << interactionState, currentResponse, pendingResponseRef,
             shouldDissolveResponse >>
timerVars == << tasks, dissolveTimer, respondTimer, dissolveTween >>
serverVars == << server, streamed, redelivered >>
ghostVars == << freshSubmit, pendingDup, shownDup >>
coordVars == << uiVars, isDissolutionCompleteRef, timerVars, serverVars,
                submitted, ghostVars >>

gateVars == << isConnected, isDebouncing, pendingMessage, exposed,
               debounceTimers, resendTimers, wire, calls, lastHeld, returned,
               answerWindow >>
connVars == << visitorId, wsReadyState, wsVisitor, reconnectTimer, closes,
               orphans, mounted >>
inputVars == << inputValue, delivered, alerts >>
pageVars == << coordVars, hasBootedUp, inputVars, consoleLog >>
vars == << pageVars, gateVars, connVars >>

NoTask == [pc |-> "none", totalWaited |-> 0, timer |-> NoTimer, elapsed |-> 0,
           hadResponse |-> FALSE, forced |-> FALSE]

InitCoordinator ==
    /\ interactionState = "idle"
    /\ currentResponse = Empty
    /\ pendingResponseRef = Empty
    /\ isDissolutionCompleteRef = TRUE
    /\ shouldDissolveResponse = FALSE
    /\ tasks = [t \in Turns |-> NoTask]
    /\ dissolveTimer = [t \in Turns |-> NoTimer]
    /\ respondTimer = [t \in Turns |-> NoTimer]
    /\ dissolveTween = NoTimer
    /\ server = [t \in Turns |-> "none"]
    /\ streamed = [t \in Turns |-> 0]
    /\ redelivered = [t \in Turns |-> 0]
    /\ submitted = 0
    /\ freshSubmit = FALSE
    /\ pendingDup = FALSE
    /\ shownDup = FALSE

\* ------------------------------------------------------ ResponseEmergence
\* The dissolution effect depends on [shouldDissolve, response,
\* onDissolveComplete]; onDissolveComplete is a new arrow function on every
\* render of TerminalInterface, so every render (a state value changed)
\* reverts the running tween and, if shouldDissolve and response hold,
\* starts it again.  The component is mounted only while currentResponse
\* is non-empty.
DissolutionEffectOn(rendered) ==
    dissolveTween' =
        IF currentResponse' # Empty /\ shouldDissolveResponse'
        THEN IF rendered \/ dissolveTween = NoTimer
             THEN DissolveTweenMs
             ELSE dissolveTween
        ELSE NoTimer

DissolutionEffect == DissolutionEffectOn(uiVars' # uiVars)

\* A step of TerminalInterface or ChatManager: the effect runs, and the gate
\* is not involved.
Rendering ==
    DissolutionEffect
    /\ UNCHANGED << gateVars, connVars, hasBootedUp, inputVars, consoleLog >>

\* ------------------------------------------------- sendMessageToServer
\* Where the async function is after the code between two awaits has run.
DissolutionOutcomeLate(flag, waited) ==
    IF ~flag /\ waited <= maxWaitDissolution THEN "waitDissolution" ELSE "display"

DissolutionOutcome(flag, waited) ==
    IF ~flag /\ waited < maxWaitDissolution THEN "waitDissolution" ELSE "display"

ResponseOutcomeLate(pending, waited, elapsed, flag) ==
    IF pending = Empty /\ waited <= maxWaitResponse THEN "waitResponse"
    ELSE IF pending = Empty THEN "timeout"
    ELSE IF MINIMUM_API_INTERVAL_MS - elapsed > 0 THEN "floor"
    ELSE DissolutionOutcome(flag, 0)

ResponseOutcome(pending, waited, elapsed, flag) ==
    IF pending = Empty /\ waited < maxWaitResponse THEN "waitResponse"
    ELSE IF pending = Empty THEN "timeout"
    ELSE IF MINIMUM_API_INTERVAL_MS - elapsed > 0 THEN "floor"
    ELSE DissolutionOutcome(flag, 0)

\* What the last lines of the try block install as the displayed answer.
Displayed(pending) == pending

\* The task of turn t moves on to `outcome`; waited is its loop counter.
Continue(t, outcome, waited) ==
    /\ tasks' = [tasks EXCEPT ![t] =
           CASE outcome = "waitResponse" ->
                    [@ EXCEPT !.pc = "waitResponse", !.totalWaited = waited,
                              !.timer = pollInterval]
             [] outcome = "floor" ->
                    [@ EXCEPT !.pc = "floor", !.totalWaited = 0,
                              !.timer = MINIMUM_API_INTERVAL_MS - tasks[t].elapsed]
             [] outcome = "waitDissolution" ->
                    [@ EXCEPT !.pc = "waitDissolution", !.totalWaited = waited,
                              !.timer = pollInterval]
             [] outcome = "timeout" ->
                    [@ EXCEPT !.pc = "failed", !.totalWaited = 0, !.timer = NoTimer]
             [] outcome = "display" ->
                    [@ EXCEPT !.pc = "done", !.totalWaited = 0, !.timer = NoTimer,
                              !.forced = ~isDissolutionCompleteRef]]
    /\ CASE outcome = "timeout" ->
                /\ interactionState' = "idle"
                /\ UNCHANGED << currentResponse, pendingResponseRef,
                                shouldDissolveResponse, ghostVars >>
         [] outcome = "display" ->
                /\ currentResponse' = Displayed(pendingResponseRef)
                /\ pendingResponseRef' = Empty
                /\ shouldDissolveResponse' = FALSE
                /\ interactionState' = "responding"
                /\ freshSubmit' = FALSE
                /\ shownDup' = pendingDup
                /\ pendingDup' = FALSE
         [] OTHER ->
                UNCHANGED << uiVars, ghostVars >>
    /\ UNCHANGED << isDissolutionCompleteRef, dissolveTimer, respondTimer,
                    serverVars, submitted >>
    /\ Rendering

\* ------------------------------------------- TerminalInput / handleMessageSend
\* TerminalInput ignores Enter while disabled (sending or receiving).
InputDisabled(state) == state \in {"sending", "receiving"}

\* The user and the server act while no wait loop has slept more than
\* MaxLatePolls times (a later event meets the loop in the same place) or
\* after the loop has ended.
EnvMayAct ==
    \A t \in Turns : tasks[t].pc \in {"waitResponse", "waitDissolution"}
                        => tasks[t].totalWaited <= MaxLatePolls * pollInterval

\* handleMessageSend schedules the dissolve timer if an answer is displayed.
DissolveScheduled(response) == response # Empty

\* ChatManager.sendMessage: the channel takes the frame only if it is open.
Dispatched(readyState) == readyState = "open"

\* The user submits the message of turn t: handleKeyDown -> handleMessageSend
\* -> sendMessageToServer up to its first sleeping await, then the 50 ms
\* dissolve timer if an answer is displayed.  With the channel open,
\* ChatManager.sendMessage writes the frame and reports 'sending', and the
\* first test of the wait loop runs in the same task; otherwise its promise
\* is rejected and the catch block sets 'idle' (after a render with
\* 'sending').  The input is hidden until the boot animation has completed.
handleMessageSend(t) ==
    /\ t = submitted + 1
    /\ t <= MaxSubmits
    /\ hasBootedUp
    /\ ~InputDisabled(interactionState)
    /\ EnvMayAct
    /\ \A u \in Turns : server[u] # "flying"   \* typing a message takes time
    /\ submitted' = t
    /\ UNCHANGED << currentResponse, pendingResponseRef, shouldDissolveResponse,
                    isDissolutionCompleteRef, respondTimer, streamed,
                    redelivered, pendingDup, shownDup >>
    /\ UNCHANGED << gateVars, connVars, hasBootedUp, inputVars, consoleLog >>
    /\ IF Dispatched(wsReadyState)
       THEN /\ server' = [server EXCEPT ![t] = "flying"]
            /\ interactionState' = "sending"
            /\ LET outcome == ResponseOutcome(pendingResponseRef, 0, 0,
                                              isDissolutionCompleteRef)
               IN tasks' = [tasks EXCEPT ![t] =
                      [pc |-> outcome, totalWaited |-> 0,
                       timer |-> IF outcome = "floor"
                                 THEN MINIMUM_API_INTERVAL_MS ELSE pollInterval,
                       elapsed |-> 0,
                       hadResponse |-> DissolveScheduled(currentResponse),
                       forced |-> FALSE]]
            /\ DissolutionEffect
       ELSE /\ server' = [server EXCEPT ![t] = "unsent"]
            /\ interactionState' = "idle"
            /\ tasks' = [tasks EXCEPT ![t] =
                   [NoTask EXCEPT !.pc = "failed",
                                  !.hadResponse = DissolveScheduled(currentResponse)]]
            /\ DissolutionEffectOn(TRUE)
    /\ dissolveTimer' = [dissolveTimer EXCEPT ![t] =
           IF DissolveScheduled(currentResponse) THEN DissolveDelay ELSE NoTimer]
    /\ freshSubmit' = TRUE

\* The 50 ms timer of handleMessageSend fires.
DissolveTimerFire(t) ==
    /\ dissolveTimer[t] = 0
    /\ dissolveTimer' = [dissolveTimer EXCEPT ![t] = NoTimer]
    /\ isDissolutionCompleteRef' = FALSE
    /\ shouldDissolveResponse' = TRUE
    /\ interactionState' = "dissolving"
    /\ UNCHANGED << currentResponse, pendingResponseRef, tasks, respondTimer,
                    serverVars, submitted, ghostVars >>
    /\ Rendering

\* The gsap tween completes: onDissolveComplete of TerminalInterface.
onDissolveComplete ==
    /\ dissolveTween = 0
    /\ isDissolutionCompleteRef' = TRUE
    /\ currentResponse' = Empty
    /\ shouldDissolveResponse' = FALSE
    /\ shownDup' = FALSE
    /\ UNCHANGED << interactionState, pendingResponseRef, tasks, dissolveTimer,
                    respondTimer, serverVars, submitted, freshSubmit,
                    pendingDup >>
    /\ Rendering

\* A sleep of waitForResponse ends: totalWaited += pollInterval, loop test.
waitForResponse(t) ==
    /\ tasks[t].pc = "waitResponse"
    /\ tasks[t].timer = 0
    /\ LET waited == tasks[t].totalWaited + pollInterval
       IN Continue(t, ResponseOutcome(pendingResponseRef, waited,
                                      tasks[t].elapsed,
                                      isDissolutionCompleteRef), waited)

\* The sleep for the rest of the floor ends.
FloorElapsed(t) ==
    /\ tasks[t].pc = "floor"
    /\ tasks[t].timer = 0
    /\ Continue(t, DissolutionOutcome(isDissolutionCompleteRef, 0), 0)

\* A sleep of waitForDissolution ends.
waitForDissolution(t) ==
    /\ tasks[t].pc = "waitDissolution"
    /\ tasks[t].timer = 0
    /\ LET waited == tasks[t].totalWaited + pollInterval
       IN Continue(t, DissolutionOutcome(isDissolutionCompleteRef, waited),
                   waited)

\* ------------------------------------------------------------ ChatManager
\* TerminalInterface.handleResponseReceived: what the buffer holds after
\* `chunk` was received while it held `pending`.
handleResponseReceived(pending, chunk) == chunk

DisplayedAfterFrameEarlier(current, chunk) == chunk

\* handleResponseReceived has no setCurrentResponse: the displayed answer
\* after `chunk` was received while `current` was displayed.
DisplayedAfterFrame(current, chunk) == current

Terminal == {"answered", "error"}
\* A turn that will get no frame: ended, never written to the channel, or
\* written to a channel that has closed since.
Settled == Terminal \union {"unsent", "lost"}
\* The server works on one turn at a time, in the order of arrival; a frame
\* written to the socket takes time to reach it ("flying" until time passes);
\* frames arrive on an open channel.
ServerReady(t) ==
    /\ isConnected
    /\ server[t] \notin Settled \union {"none", "flying"}
    /\ \A u \in 1..(t - 1) : server[u] \in Settled
    /\ EnvMayAct

\* case 'message_received'
RecvMessageReceived(t) ==
    /\ ServerReady(t)
    /\ server[t] = "sent"
    /\ server' = [server EXCEPT ![t] = "acked"]
    /\ interactionState' = "receiving"
    /\ UNCHANGED << currentResponse, pendingResponseRef,
                    isDissolutionCompleteRef, shouldDissolveResponse, tasks,
                    dissolveTimer, respondTimer, streamed, redelivered,
                    submitted, ghostVars >>
    /\ Rendering

\* case 'ai_response'
RecvAiResponse(t) ==
    /\ ServerReady(t)
    /\ server[t] \in {"sent", "acked"}
    /\ server' = [server EXCEPT ![t] = "answered"]
    /\ pendingResponseRef' = handleResponseReceived(pendingResponseRef, Answer(t))
    /\ currentResponse' = DisplayedAfterFrame(currentResponse, Answer(t))
    /\ pendingDup' = FALSE
    /\ respondTimer' = [respondTimer EXCEPT ![t] = RespondDelay]
    /\ UNCHANGED << interactionState,
                    isDissolutionCompleteRef, shouldDissolveResponse, tasks,
                    dissolveTimer, streamed, redelivered, submitted,
                    freshSubmit, shownDup >>
    /\ Rendering

\* the 300 ms timer of case 'ai_response'
RespondTimerFire(t) ==
    /\ respondTimer[t] = 0
    /\ respondTimer' = [respondTimer EXCEPT ![t] = NoTimer]
    /\ interactionState' = "responding"
    /\ UNCHANGED << currentResponse, pendingResponseRef,
                    isDissolutionCompleteRef, shouldDissolveResponse, tasks,
                    dissolveTimer, serverVars, submitted, ghostVars >>
    /\ Rendering

AfterErrorUnchanged(state) == state

\* onStateChange('idle') of case 'error'
AfterError(state) == "idle"

\* case 'error'
RecvError(t) ==
    /\ ServerReady(t)
    /\ server[t] \in {"sent", "acked", "streaming"}
    /\ server' = [server EXCEPT ![t] = "error"]
    /\ interactionState' = AfterError(interactionState)
    /\ UNCHANGED << currentResponse, pendingResponseRef,
                    isDissolutionCompleteRef, shouldDissolveResponse, tasks,
                    dissolveTimer, respondTimer, streamed, redelivered,
                    submitted, ghostVars >>
    /\ Rendering

\* case 'ai_response_chunk': the next chunk of the answer to turn t
RecvChunk(t) ==
    /\ ServerReady(t)
    /\ streamed[t] < NumChunks
    /\ server' = [server EXCEPT ![t] = "streaming"]
    /\ streamed' = [streamed EXCEPT ![t] = @ + 1]
    /\ pendingResponseRef' =
           handleResponseReceived(pendingResponseRef, << Chunk(t, streamed[t] + 1) >>)
    /\ currentResponse' =
           DisplayedAfterFrame(currentResponse, << Chunk(t, streamed[t] + 1) >>)
    /\ pendingDup' = FALSE
    /\ interactionState' = "responding"
    /\ UNCHANGED << isDissolutionCompleteRef,
                    shouldDissolveResponse, tasks, dissolveTimer, respondTimer,
                    redelivered, submitted, freshSubmit, shownDup >>
    /\ Rendering

\* case 'ai_response_complete'
RecvComplete(t) ==
    /\ ServerReady(t)
    /\ server[t] = "streaming"
    /\ streamed[t] = NumChunks
    /\ server' = [server EXCEPT ![t] = "answered"]
    /\ interactionState' = "responding"
    /\ UNCHANGED << currentResponse, pendingResponseRef,
                    isDissolutionCompleteRef, shouldDissolveResponse, tasks,
                    dissolveTimer, respondTimer, streamed, redelivered,
                    submitted, ghostVars >>
    /\ Rendering

\* case 'ai_response_chunk' for a chunk of a stream whose completion marker
\* has been processed: the same sequence delivered a second time.
RecvChunkAgain(t) ==
    /\ isConnected
    /\ server[t] = "answered"
    /\ streamed[t] = NumChunks
    /\ redelivered[t] < NumChunks
    /\ EnvMayAct
    /\ redelivered' = [redelivered EXCEPT ![t] = @ + 1]
    /\ pendingResponseRef' =
           handleResponseReceived(pendingResponseRef, << Chunk(t, redelivered[t] + 1) >>)
    /\ currentResponse' =
           DisplayedAfterFrame(currentResponse, << Chunk(t, redelivered[t] + 1) >>)
    /\ pendingDup' = TRUE
    /\ interactionState' = "responding"
    /\ UNCHANGED << isDissolutionCompleteRef,
                    shouldDissolveResponse, tasks, dissolveTimer, respondTimer,
                    server, streamed, submitted, freshSubmit, shownDup >>
    /\ Rendering

\* The number of turns that have ended.
NumSettled == Cardinality({t \in Turns : server[t] \in Settled})

\* The types that have a case in the switch of handleWebSocketMessage.
Handled ==
    {"conversation_quote", "message_received", "ai_response_chunk",
     "ai_response_complete", "ai_response", "error"}

\* Types the server sends, or may send, that have none.
OtherTypes == {"heartbeat_ack", "unknown_type"}

OnParseErrorClose(readyState) == "closed"

\* The catch block of ws.onmessage logs the error; the socket is not touched.
OnParseError(readyState) == readyState

\* ws.onmessage with data that is not JSON: JSON.parse throws.
RecvUnparseable ==
    /\ isConnected
    /\ EnvMayAct
    /\ Len(consoleLog) < MaxNoise
    /\ consoleLog' = Append(consoleLog, [type |-> "unparseable", settled |-> NumSettled])
    /\ wsReadyState' = OnParseError(wsReadyState)
    /\ UNCHANGED << coordVars, hasBootedUp, inputVars, gateVars, visitorId,
                    wsVisitor, reconnectTimer, closes, orphans, mounted >>

DefaultCaseIdle(state) == "idle"

\* default: console.log('Unknown message type:', data.type)
DefaultCase(state) == state

\* handleWebSocketMessage with a type that has no case
RecvOther(type) ==
    /\ type \notin Handled
    /\ isConnected
    /\ EnvMayAct
    /\ Len(consoleLog) < MaxNoise
    /\ consoleLog' = Append(consoleLog, [type |-> type, settled |-> NumSettled])
    /\ interactionState' = DefaultCase(interactionState)
    /\ UNCHANGED << currentResponse, pendingResponseRef, shouldDissolveResponse,
                    isDissolutionCompleteRef, tasks, dissolveTimer, respondTimer,
                    serverVars, submitted, ghostVars >>
    /\ DissolutionEffect
    /\ UNCHANGED << gateVars, connVars, hasBootedUp, inputVars >>

\* ------------------------------------------------------------------- time
Deadlines ==
    {tasks[t].timer : t \in Turns} \union {dissolveTimer[t] : t \in Turns}
        \union {respondTimer[t] : t \in Turns}
        \union {dissolveTween, reconnectTimer.left}

Min(S) == CHOOSE x \in S : \A y \in S : x <= y
Pass(timer, d) == IF timer = NoTimer THEN NoTimer ELSE timer - d
Capped(n) == IF n > MINIMUM_API_INTERVAL_MS THEN MINIMUM_API_INTERVAL_MS ELSE n

\* Time passes up to the nearest deadline; no timer is overdue.
Tick ==
    /\ Deadlines \ {NoTimer} # {}
    /\ LET d == Min(Deadlines \ {NoTimer})
       IN /\ d > 0
          /\ tasks' = [t \in Turns |->
                 IF tasks[t].pc = "none" THEN tasks[t]
                 ELSE [tasks[t] EXCEPT !.timer = Pass(@, d),
                                       !.elapsed = Capped(@ + d)]]
          /\ dissolveTimer' = [t \in Turns |-> Pass(dissolveTimer[t], d)]
          /\ respondTimer' = [t \in Turns |-> Pass(respondTimer[t], d)]
          /\ dissolveTween' = Pass(dissolveTween, d)
          /\ reconnectTimer' = [reconnectTimer EXCEPT !.left = Pass(@, d)]
    /\ server' = [t \in Turns |-> IF server[t] = "flying" THEN "sent" ELSE server[t]]
    /\ UNCHANGED << uiVars, isDissolutionCompleteRef, streamed, redelivered,
                    submitted, ghostVars, gateVars, hasBootedUp, inputVars,
                    consoleLog, visitorId, wsReadyState, wsVisitor, closes,
                    orphans, mounted >>

\* The coordinator's own steps, whatever the server sends.
Coordinator ==
    \/ \E t \in Turns : DissolveTimerFire(t)
    \/ onDissolveComplete
    \/ \E t \in Turns : waitForResponse(t)
    \/ \E t \in Turns : FloorElapsed(t)
    \/ \E t \in Turns : waitForDissolution(t)
    \/ \E t \in Turns : RecvMessageReceived(t)
    \/ \E t \in Turns : RecvError(t)
    \/ Tick

\* -------------------------------------------------------- MessageDebouncer
Null == 0

\* The values a render of MessageDebouncer hands to its sendMessage.
Rendered == [isConnected |-> isConnected, isDebouncing |-> isDebouncing,
             pendingMessage |-> pendingMessage]

InitGate ==
    /\ isConnected = FALSE
    /\ isDebouncing = FALSE
    /\ pendingMessage = Null
    /\ exposed = Rendered
    /\ debounceTimers = << >>
    /\ resendTimers = << >>
    /\ wire = << >>
    /\ calls = 0
    /\ lastHeld = Null
    /\ returned = Null
    /\ answerWindow = [answered |-> 0, left |-> NoTimer]

NoReconnect == [left |-> NoTimer, visitorId |-> Null]

InitConnection ==
    /\ visitorId = Null
    /\ wsReadyState = "none"
    /\ wsVisitor = Null
    /\ reconnectTimer = NoReconnect
    /\ closes = 0
    /\ orphans = 0
    /\ mounted = TRUE
    /\ hasBootedUp = FALSE

InitInput ==
    /\ inputValue = Empty
    /\ delivered = << >>
    /\ alerts = 0
    /\ consoleLog = << >>

Init == InitCoordinator /\ InitGate /\ InitConnection /\ InitInput

HoldFirst(current, message) == IF current = Null THEN message ELSE current

\* setPendingMessage(message) of the first branch of sendMessage
Hold(current, message) == message

AfterRejectKept(debouncing) == TRUE

\* setIsDebouncing(false) of the catch block
AfterReject(debouncing) == FALSE

\* sendMessage(message) of the render whose values are `closure`.
\* ChatManager.sendMessage rejects when the socket is not open.
sendMessage(message, closure) ==
    IF ~closure.isConnected \/ closure.isDebouncing
    THEN /\ pendingMessage' = Hold(pendingMessage, message)
         /\ lastHeld' = message
         /\ returned' = FALSE
         /\ UNCHANGED << isDebouncing, debounceTimers, wire >>
    ELSE IF Dispatched(wsReadyState)
    THEN /\ Len(wire) < MaxWire
         /\ wire' = Append(wire, message)
         /\ isDebouncing' = TRUE
         /\ debounceTimers' = Append(debounceTimers,
                [left |-> debounceTime, closure |-> closure])
         /\ returned' = TRUE
         /\ UNCHANGED << pendingMessage, lastHeld >>
    ELSE /\ isDebouncing' = AfterReject(isDebouncing)
         /\ returned' = FALSE
         /\ UNCHANGED << pendingMessage, lastHeld, debounceTimers, wire >>

\* A caller invokes window.sendMessage with the next message.
CallSendMessage(m) ==
    /\ UNCHANGED << pageVars, connVars >>
    /\ mounted
    /\ m = calls + 1
    /\ m <= MaxCalls
    /\ calls' = m
    /\ sendMessage(m, exposed)
    /\ UNCHANGED << isConnected, exposed, resendTimers, answerWindow >>

Remove(seq, i) == [j \in 1..(Len(seq) - 1) |-> IF j < i THEN seq[j] ELSE seq[j + 1]]

\* The debounce timeout fires: the callback reads pendingMessage of the
\* render in which its sendMessage was created.
DebounceElapsed(i) ==
    /\ UNCHANGED << pageVars, connVars >>
    /\ i \in DOMAIN debounceTimers
    /\ debounceTimers[i].left = 0
    /\ LET closure == debounceTimers[i].closure
       IN /\ isDebouncing' = FALSE
          /\ IF closure.pendingMessage # Null
             THEN /\ pendingMessage' = Null
                  /\ resendTimers' = Append(resendTimers,
                         [left |-> ResendDelay, closure |-> closure])
             ELSE UNCHANGED << pendingMessage, resendTimers >>
    /\ debounceTimers' = Remove(debounceTimers, i)
    /\ UNCHANGED << isConnected, exposed, wire, calls, lastHeld, returned,
                    answerWindow >>

\* setTimeout(() => sendMessage(nextMessage), 100) fires.
ResendPending(i) ==
    /\ UNCHANGED << pageVars, connVars >>
    /\ i \in DOMAIN resendTimers
    /\ resendTimers[i].left = 0
    /\ resendTimers' = Remove(resendTimers, i)
    /\ sendMessage(resendTimers[i].closure.pendingMessage, resendTimers[i].closure)
    /\ UNCHANGED << isConnected, exposed, calls, answerWindow >>

\* React renders MessageDebouncer and its effect replaces window.sendMessage.
RenderGate ==
    /\ UNCHANGED << pageVars, connVars >>
    /\ mounted
    /\ exposed # Rendered
    /\ exposed' = Rendered
    /\ UNCHANGED << isConnected, isDebouncing, pendingMessage, debounceTimers,
                    resendTimers, wire, calls, lastHeld, returned, answerWindow >>

\* ---------------------------------------------------- ChatManager channel
Visitors == 1..MaxVisitors

\* The mount effect: setVisitorId(generateVisitorId()).
generateVisitorId(v) ==
    /\ mounted
    /\ visitorId = Null
    /\ visitorId' = v
    /\ UNCHANGED << pageVars, gateVars, wsReadyState, wsVisitor,
                    reconnectTimer, closes, orphans, mounted >>

RetryFreshVisitor(closure, fresh) == fresh

\* The visitor_id with which a retry opens the channel: the visitorId of the
\* effect in which connectWebSocket was created.
RetryVisitor(closure, fresh) == closure

Live(readyState) == readyState \in {"connecting", "open"}

\* wsRef.current = new WebSocket(wsUrl): the socket wsRef referred to is
\* dropped as it is.
Orphaned(readyState) == IF Live(readyState) THEN 1 ELSE 0

\* connectWebSocket of the effect that runs once visitorId is set.
connectWebSocket ==
    /\ mounted
    /\ visitorId # Null
    /\ wsReadyState = "none"
    /\ wsReadyState' = "connecting"
    /\ wsVisitor' = visitorId
    /\ orphans' = orphans + Orphaned(wsReadyState)
    /\ UNCHANGED << pageVars, gateVars, visitorId, reconnectTimer, closes,
                    mounted >>

\* ws.onopen
SocketOpened ==
    /\ wsReadyState = "connecting"
    /\ EnvMayAct
    /\ wsReadyState' = "open"
    /\ isConnected' = TRUE
    /\ UNCHANGED << pageVars, isDebouncing, pendingMessage, exposed,
                    debounceTimers, resendTimers, wire, calls, lastHeld,
                    returned, answerWindow, visitorId, wsVisitor, reconnectTimer,
                    closes,
                    orphans, mounted >>

\* ws.onclose, of an open channel or of a failed attempt: the frames of the
\* turns that were waiting for the server are lost with the channel.
SocketClosed ==
    /\ wsReadyState \in {"connecting", "open", "closing"}
    /\ closes < MaxCloses
    /\ EnvMayAct
    /\ closes' = closes + 1
    /\ wsReadyState' = "closed"
    /\ isConnected' = FALSE
    /\ reconnectTimer' = [left |-> ReconnectDelay, visitorId |-> wsVisitor]
    /\ server' = [t \in Turns |->
           IF server[t] \in {"flying", "sent", "acked", "streaming"}
           THEN "lost" ELSE server[t]]
    /\ UNCHANGED << uiVars, isDissolutionCompleteRef, timerVars, streamed,
                    redelivered, submitted, ghostVars, hasBootedUp, inputVars,
                    consoleLog, isDebouncing, pendingMessage, exposed, debounceTimers,
                    resendTimers, wire, calls, lastHeld, returned, answerWindow,
                    visitorId, wsVisitor, orphans, mounted >>

\* The 3000 ms timeout of ws.onclose fires: connectWebSocket again.
Reconnect ==
    /\ reconnectTimer.left = 0
    /\ reconnectTimer' = NoReconnect
    /\ wsReadyState' = "connecting"
    /\ \E fresh \in Visitors :
          wsVisitor' = RetryVisitor(reconnectTimer.visitorId, fresh)
    /\ orphans' = orphans + Orphaned(wsReadyState)
    /\ UNCHANGED << pageVars, gateVars, visitorId, closes, mounted >>

RetryOnErrorToo == TRUE

\* ws.onerror only logs the error: it arms no reconnection.
RetryOnError == FALSE

\* ws.onerror
SocketError ==
    /\ Live(wsReadyState)
    /\ Len(consoleLog) < MaxNoise
    /\ consoleLog' = Append(consoleLog, [type |-> "socket error", settled |-> NumSettled])
    /\ reconnectTimer' = IF RetryOnError
                         THEN [left |-> ReconnectDelay, visitorId |-> wsVisitor]
                         ELSE reconnectTimer
    /\ UNCHANGED << coordVars, hasBootedUp, inputVars, gateVars, visitorId,
                    wsReadyState, wsVisitor, closes, orphans, mounted >>

\* ChatManager is unmounted, and MessageDebouncer with it: the cleanup of the
\* connection effect calls close() on the socket, the cleanup of
\* MessageDebouncer clears the debounce timeout that was armed last, and
\* window.sendMessage is deleted.
Unmount ==
    /\ mounted
    /\ mounted' = FALSE
    /\ wsReadyState' = IF Live(wsReadyState) THEN "closing" ELSE wsReadyState
    /\ debounceTimers' = SubSeq(debounceTimers, 1, Len(debounceTimers) - 1)
    /\ UNCHANGED << pageVars, isConnected, isDebouncing, pendingMessage,
                    exposed, resendTimers, wire, calls, lastHeld, returned,
                    answerWindow, visitorId, wsVisitor, reconnectTimer, closes,
                    orphans >>

\* case 'conversation_quote' -> handleQuoteReceived -> the boot effect ->
\* TerminalShimmer onComplete: setHasBootedUp(true) shows the input.
Boot ==
    /\ isConnected
    /\ ~hasBootedUp
    /\ hasBootedUp' = TRUE
    /\ UNCHANGED << coordVars, gateVars, connVars, inputVars, consoleLog >>

GateDeadlines ==
    {debounceTimers[i].left : i \in DOMAIN debounceTimers}
        \union {resendTimers[i].left : i \in DOMAIN resendTimers}
        \union ({reconnectTimer.left, answerWindow.left} \ {NoTimer})

\* The server's answer to the latest frame on the wire has arrived in full.
AnswerCompleted ==
    /\ isConnected
    /\ answerWindow.answered < Len(wire)
    /\ answerWindow' = [answered |-> Len(wire), left |-> debounceTime]
    /\ UNCHANGED << pageVars, connVars, isConnected, isDebouncing,
                    pendingMessage, exposed, debounceTimers, resendTimers, wire,
                    calls, lastHeld, returned >>

\* Time passes up to the nearest deadline, once React has rendered.
TickGate ==
    /\ UNCHANGED pageVars
    /\ exposed = Rendered
    /\ GateDeadlines # {}
    /\ LET d == Min(GateDeadlines)
       IN /\ d > 0
          /\ debounceTimers' = [i \in DOMAIN debounceTimers |->
                 [debounceTimers[i] EXCEPT !.left = @ - d]]
          /\ resendTimers' = [i \in DOMAIN resendTimers |->
                 [resendTimers[i] EXCEPT !.left = @ - d]]
          /\ reconnectTimer' = [reconnectTimer EXCEPT !.left = Pass(@, d)]
          /\ answerWindow' = [answerWindow EXCEPT !.left =
                 IF @ = NoTimer \/ @ = d THEN NoTimer ELSE @ - d]
    /\ UNCHANGED << isConnected, isDebouncing, pendingMessage, exposed, wire,
                    calls, lastHeld, returned, visitorId, wsReadyState, wsVisitor, closes,
                    orphans, mounted >>

\* ---------------------------------------------------------- TerminalInput
\* A typed text is a sequence of characters: a blank or a letter.
Blank == " "
Letter == "w"

\* String.prototype.trim: the text from its first to its last letter.
Trim(text) ==
    LET letters == {i \in DOMAIN text : text[i] # Blank}
    IN IF letters = {} THEN Empty
       ELSE SubSeq(text,
                   CHOOSE i \in letters : \A j \in letters : i <= j,
                   CHOOSE i \in letters : \A j \in letters : j <= i)

\* text.split(/\s+/).length: one piece more than there are runs of blanks.
Pieces(text) ==
    Cardinality({i \in DOMAIN text :
        text[i] = Blank /\ (i = 1 \/ text[i - 1] # Blank)}) + 1

\* The pieces of length 0: the one before a run of blanks that starts the
\* text and the one after a run that ends it (the whole of an empty text).
EmptyPieces(text) ==
    (IF text = Empty \/ text[1] = Blank THEN 1 ELSE 0)
    + (IF text # Empty /\ text[Len(text)] = Blank THEN 1 ELSE 0)

\* message.split(/\s+/).filter(word => word.length > 0).length
WordCount(message) == Pieces(message) - EmptyPieces(message)

OverLimitInclusive(wordCount) == wordCount >= WordLimit

\* wordCount > 200
OverLimit(wordCount) == wordCount > WordLimit

\* The texts a user types: blanks around, and between, a number of words.
Phrase(n) == [i \in 1..(2 * n) |-> IF i % 2 = 1 THEN Letter ELSE Blank]
Typed ==
    {before \o Phrase(n) \o after :
        before \in {Empty, << Blank >>},
        n \in {0, 1, WordLimit - 1, WordLimit, WordLimit + 1},
        after \in {Empty, << Letter >>, << Blank, Blank >>}}

\* onChange of the hidden input
handleInputChange(text) ==
    /\ inputValue # text
    /\ inputValue' = text
    /\ UNCHANGED << coordVars, hasBootedUp, gateVars, connVars, delivered, alerts,
                    consoleLog >>

\* onKeyDown with the Enter key, with the value of the disabled prop.
handleKeyDown(disabled) ==
    /\ IF ~disabled /\ Trim(inputValue) # Empty
       THEN LET message == Trim(inputValue)
            IN IF OverLimit(WordCount(message))
               THEN /\ alerts < MaxAlerts
                    /\ alerts' = alerts + 1
                    /\ UNCHANGED << inputValue, delivered >>
               ELSE /\ Len(delivered) < MaxDelivered
                    /\ delivered' = Append(delivered, message)
                    /\ inputValue' = Empty
                    /\ UNCHANGED alerts
       ELSE UNCHANGED inputVars
    /\ UNCHANGED << coordVars, hasBootedUp, gateVars, connVars, consoleLog >>

\* --------------------------------------------------------- specifications
\* The coordinator with a server that answers with one ai_response frame.
\* The page comes up: the visitor id, the channel, the boot animation.
Startup ==
    \/ \E v \in Visitors : generateVisitorId(v)
    \/ connectWebSocket
    \/ SocketOpened
    \/ Boot

Next ==
    \/ Startup
    \/ \E t \in Turns : handleMessageSend(t)
    \/ Coordinator
    \/ \E t \in Turns : RecvAiResponse(t)
    \/ \E t \in Turns : RespondTimerFire(t)

Spec == Init /\ [][Next]_vars

\* The coordinator with a server that streams its answers.
NextStream ==
    \/ Startup
    \/ \E t \in 1..MaxStreamTurns : handleMessageSend(t)
    \/ Coordinator
    \/ \E t \in Turns : RecvChunk(t)
    \/ \E t \in Turns : RecvComplete(t)
    \/ \E t \in Turns : RecvChunkAgain(t)

SpecStream == Init /\ [][NextStream]_vars

\* The coordinator with a server that answers or fails each turn; every
\* timeout that is due fires and time passes.
NextError ==
    \/ Startup
    \/ \E t \in 1..MaxErrorTurns : handleMessageSend(t)
    \/ Coordinator
    \/ \E t \in Turns : RecvAiResponse(t)
    \/ \E t \in Turns : RespondTimerFire(t)

SpecError == Init /\ [][NextError]_vars /\ WF_vars(NextError)

\* The steps the page takes by itself: its timeouts fire and time passes.
OwnSteps ==
    \/ \E t \in Turns : DissolveTimerFire(t)
    \/ onDissolveComplete
    \/ \E t \in Turns : waitForResponse(t)
    \/ \E t \in Turns : FloorElapsed(t)
    \/ \E t \in Turns : waitForDissolution(t)
    \/ \E t \in Turns : RespondTimerFire(t)
    \/ Tick

\* The same coordinator with a server and a user that may stay silent: only
\* the page's own timeouts are certain to fire.
SpecQuiet == Init /\ [][NextError]_vars /\ WF_vars(OwnSteps)

\* The coordinator with a server that sends every kind of frame.
NextFrames ==
    \/ Startup
    \/ \E t \in 1..MaxFrameTurns : handleMessageSend(t)
    \/ Coordinator
    \/ \E t \in Turns : RecvAiResponse(t)
    \/ \E t \in Turns : RespondTimerFire(t)
    \/ \E t \in Turns : RecvChunk(t)
    \/ \E t \in Turns : RecvComplete(t)
    \/ RecvUnparseable
    \/ \E type \in OtherTypes : RecvOther(type)

SpecFrames == Init /\ [][NextFrames]_vars

\* The coordinator with a channel that closes and is opened again.
NextConn ==
    \/ Startup
    \/ \E t \in 1..MaxConnTurns : handleMessageSend(t)
    \/ Coordinator
    \/ \E t \in Turns : RecvAiResponse(t)
    \/ \E t \in Turns : RespondTimerFire(t)
    \/ SocketClosed
    \/ Reconnect

SpecConn == Init /\ [][NextConn]_vars

\* TerminalInput and its user.
NextInput ==
    \/ \E text \in Typed : handleInputChange(text)
    \/ \E disabled \in BOOLEAN : handleKeyDown(disabled)

SpecInput == Init /\ [][NextInput]_vars

\* The gate and its callers.
NextGate ==
    \/ \E m \in 1..MaxCalls : CallSendMessage(m)
    \/ \E i \in 1..MaxWire : DebounceElapsed(i)
    \/ \E i \in 1..MaxWire : ResendPending(i)
    \/ RenderGate
    \/ \E v \in Visitors : generateVisitorId(v)
    \/ connectWebSocket
    \/ SocketOpened
    \/ SocketClosed
    \/ Reconnect
    \/ SocketError
    \/ Unmount
    \/ AnswerCompleted
    \/ TickGate

SpecGate == Init /\ [][NextGate]_vars

\* The steps the gate and the channel take by themselves: timeouts, renders,
\* the reconnection and the opening of the socket.
GateOwnSteps ==
    \/ \E i \in 1..MaxWire : DebounceElapsed(i)
    \/ \E i \in 1..MaxWire : ResendPending(i)
    \/ RenderGate
    \/ connectWebSocket
    \/ SocketOpened
    \/ Reconnect
    \/ TickGate

\* The gate with callers that may stay silent.
SpecGateQuiet == Init /\ [][NextGate]_vars /\ WF_vars(GateOwnSteps)

\* ------------------------------------------------------------------ claims
Shows == currentResponse' # currentResponse /\ currentResponse' # Empty
Displays(t) == tasks[t].pc # "done" /\ tasks'[t].pc = "done"
InFlight(t) ==
    /\ tasks[t].pc \in {"waitResponse", "floor", "waitDissolution"}
    /\ server[t] # "error"

\* C1: the dissolve tween of the displayed answer never runs while the
\* emergence animation is active on it (isActive: interactionState is
\* 'responding').
C1_MutualExclusion ==
    ~(/\ shouldDissolveResponse
      /\ currentResponse # Empty
      /\ dissolveTween # NoTimer
      /\ interactionState = "responding")

\* C2: the task of a message submitted while an answer was displayed never
\* overwrites a displayed answer with its own answer unless that answer's
\* dissolve has completed (the display is then empty) or the dissolve wait
\* has run out.
C2_NoOverwriteBeforeDissolve ==
    [][\A t \in Turns :
          (/\ Displays(t)
           /\ tasks[t].hadResponse
           /\ Shows
           /\ TurnOf(currentResponse') = t
           /\ currentResponse # Empty)
          => (/\ tasks[t].pc = "waitDissolution"
              /\ tasks[t].totalWaited + pollInterval >= maxWaitDissolution)]_vars

\* C3: an answer becomes visible no earlier than MINIMUM_API_INTERVAL_MS
\* after the send of its turn.
C3_MinimumFloor ==
    [][Shows => tasks[TurnOf(currentResponse')].elapsed
                    >= MINIMUM_API_INTERVAL_MS]_vars

\* C4: at most one turn is in flight (sent, neither displayed nor failed).
C4_OneTurnInFlight ==
    Cardinality({t \in Turns : InFlight(t)}) <= 1

\* C5: the answer rendered for a streamed turn, once all its chunks and
\* its completion marker have arrived, is the concatenation of the chunks in
\* arrival order.
C5_ChunkReassembly ==
    [][(/\ Shows
        /\ ~pendingDup
        /\ server[TurnOf(currentResponse')] = "answered")
       => currentResponse' = Answer(TurnOf(currentResponse'))]_vars

\* C6: a chunk delivered again after the completion marker of its stream is
\* never rendered.
C6_DuplicateIdempotence ==
    ~(shownDup /\ currentResponse # Empty)

\* C7: the answer that becomes visible is the response to the most recently
\* submitted message.
C7_AnswerOfLatestMessage ==
    [][Shows => TurnOf(currentResponse') = submitted]_vars

\* C8: a displayed answer starts to dissolve, or is cleared, only after a
\* submission made since it became visible.
C8_NoFlashAndVanish ==
    [][(/\ currentResponse # Empty
        /\ \/ currentResponse' = Empty
           \/ shouldDissolveResponse' /\ ~shouldDissolveResponse)
       => freshSubmit]_vars

\* C9: the gate holds at most one pending message, and it is the latest one
\* that was submitted while the gate was holding.
C9_LatestPending ==
    pendingMessage # Null => pendingMessage = lastHeld

C9_Witness ==
    /\ isDebouncing
    /\ wire = << 1 >>
    /\ calls >= 3
    /\ pendingMessage = calls

CooldownElapses == Len(debounceTimers') < Len(debounceTimers)

\* C10: when the cool-down elapses while a message is pending, the pending
\* slot is emptied and that message is scheduled to be sent.
C10_PendingSentAfterCooldown ==
    [][(CooldownElapses /\ pendingMessage # Null)
       => (/\ pendingMessage' = Null
           /\ \E j \in DOMAIN resendTimers' :
                 resendTimers'[j].closure.pendingMessage = pendingMessage)]_vars

CooldownActive == debounceTimers # << >>

\* C11: while the cool-down window of a sent message is active, a call of
\* the gate's sendMessage writes nothing to the channel and only holds its
\* message as pending.
C11_NoSendDuringCooldown ==
    [][(calls' # calls /\ CooldownActive)
       => (wire' = wire /\ pendingMessage' = calls')]_vars

Waiting(t) == tasks[t].pc \in {"waitResponse", "floor", "waitDissolution"}
FailedBefore(t) == \E u \in 1..(t - 1) : server[u] = "error"

\* C12: an error frame for a turn sets the coordinator to idle and leaves
\* the channel open (the input accepts the next message), the next message
\* is written to the channel, and once its answer is in the buffer while
\* its task waits, that answer is eventually displayed (unless a later
\* message is submitted first).
C12_ErrorNonFatal ==
    /\ [][\A t \in Turns :
            (server[t] # "error" /\ server'[t] = "error")
            => (/\ interactionState' = "idle"
                /\ ~InputDisabled(interactionState')
                /\ isConnected')]_vars
    /\ [][\A t \in Turns :
            (submitted' = t /\ submitted # t /\ FailedBefore(t) /\ isConnected)
            => server'[t] = "flying"]_vars
    /\ \A t \in Turns :
          (FailedBefore(t) /\ pendingResponseRef = Answer(t) /\ Waiting(t))
          ~> (currentResponse = Answer(t) \/ submitted > t)

C12_Witness ==
    /\ server[1] = "error"
    /\ server[2] = "answered"
    /\ submitted = 2
    /\ currentResponse = Answer(2)
    /\ interactionState = "responding"

\* C13: a task waits for an answer for at most maxWaitResponse; when the
\* buffer is still empty at the end of the last sleep it gives up and sets
\* the coordinator to idle, whatever the state was.
C13_AnswerTimeout ==
    /\ [](\A t \in Turns :
            tasks[t].pc = "waitResponse"
            => tasks[t].totalWaited < maxWaitResponse)
    /\ [][\A t \in Turns :
            (/\ tasks[t].pc = "waitResponse"
             /\ tasks'[t].pc # "waitResponse"
             /\ pendingResponseRef = Empty)
            => (/\ tasks[t].totalWaited + pollInterval = maxWaitResponse
                /\ tasks'[t].pc = "failed"
                /\ interactionState' = "idle")]_vars

C13_Witness ==
    \E t \in Turns :
        /\ tasks[t].pc = "failed"
        /\ server[t] = "acked"
        /\ interactionState = "idle"
        /\ pendingResponseRef = Empty

\* C14: a task waits for the dissolve to complete for at most
\* maxWaitDissolution; it ends the wait when the callback has fired or the
\* bound is reached, and then displays the buffer and enters responding.
C14_DissolveTimeout ==
    /\ [](\A t \in Turns :
            tasks[t].pc = "waitDissolution"
            => tasks[t].totalWaited < maxWaitDissolution)
    /\ [][\A t \in Turns :
            (tasks[t].pc = "waitDissolution" /\ tasks'[t].pc # "waitDissolution")
            => (/\ \/ isDissolutionCompleteRef
                   \/ tasks[t].totalWaited + pollInterval = maxWaitDissolution
                /\ tasks'[t].pc = "done"
                /\ currentResponse' = pendingResponseRef
                /\ interactionState' = "responding")]_vars

C14_Witness ==
    \E t \in Turns :
        /\ tasks[t].pc = "done"
        /\ tasks[t].forced
        /\ ~isDissolutionCompleteRef
        /\ currentResponse # Empty
        /\ interactionState = "responding"

\* C15: every close of the channel (of an open channel or of a failed
\* attempt) arms the reconnect timeout with the fixed delay; while the
\* channel is closed a retry is always armed; the retry is made when the
\* delay has elapsed, with the visitor_id the channel had before.
C15_Reconnection ==
    /\ [](wsReadyState = "closed" => reconnectTimer.left # NoTimer)
    /\ [](wsReadyState \in {"connecting", "open"} => wsVisitor = visitorId)
    /\ [][(wsReadyState # "closed" /\ wsReadyState' = "closed")
          => reconnectTimer'.left = ReconnectDelay]_vars
    /\ [][(wsReadyState = "closed" /\ wsReadyState' # "closed")
          => (/\ reconnectTimer.left = 0
              /\ wsReadyState' = "connecting"
              /\ wsVisitor' = wsVisitor)]_vars

C15_Witness ==
    /\ closes >= 2
    /\ wsReadyState = "open"
    /\ isConnected
    /\ wsVisitor = visitorId

SubmittedNow(t) == submitted # t /\ submitted' = t
DissolveStartedBy(t) ==
    /\ dissolveTimer[t] = 0
    /\ dissolveTimer'[t] = NoTimer
    /\ shouldDissolveResponse'

\* C16: a submission made while the channel is not open starts no turn:
\* the coordinator is not left in 'sending', no frame is written, no wait
\* loop runs, and the displayed answer is not made to dissolve by it.
C16_NoTurnWhileClosed ==
    /\ [][\A t \in Turns :
            (SubmittedNow(t) /\ ~isConnected)
            => (/\ interactionState' # "sending"
                /\ server'[t] = "unsent"
                /\ ~Waiting(t)')]_vars
    /\ [][\A t \in Turns :
            server[t] = "unsent" => ~DissolveStartedBy(t)]_vars

\* The words of a text: the places where a letter starts a run of letters.
NumWords(text) ==
    Cardinality({i \in DOMAIN text :
        text[i] # Blank /\ (i = 1 \/ text[i - 1] = Blank)})
Surrounded(text) ==
    text # Empty /\ (text[1] = Blank \/ text[Len(text)] = Blank)

FrameWritten(t) == server[t] \notin {"none", "unsent"}
C18_ImmediateDispatch ==
    /\ [][\A t \in Turns : SubmittedNow(t) => FrameWritten(t)']_vars
    /\ [][\A t \in Turns : DissolveStartedBy(t) => FrameWritten(t)]_vars

\* C19: the coordinator does not stay in 'dissolving' once the dissolve of
\* the previous answer has completed with no answer buffered and no turn in
\* flight: it has gone to 'idle' (or, with an answer buffered, goes to
\* 'responding' when the floor allows).
DissolveCompleted ==
    /\ isDissolutionCompleteRef
    /\ ~shouldDissolveResponse
    /\ currentResponse = Empty
C19_LeavesDissolving ==
    ~(/\ interactionState = "dissolving"
      /\ DissolveCompleted
      /\ pendingResponseRef = Empty
      /\ \A t \in Turns : ~InFlight(t))

\* C20: every change of interactionState follows an edge of the specified
\* machine: idle to sending, sending to receiving, sending or receiving to
\* responding, responding to dissolving, dissolving to responding, and any
\* state to idle; no other change occurs.
Edges ==
    {<< "idle", "sending" >>, << "sending", "receiving" >>,
     << "sending", "responding" >>, << "receiving", "responding" >>,
     << "responding", "dissolving" >>, << "dissolving", "responding" >>}
    \union {<< from, "idle" >> :
                from \in {"sending", "receiving", "responding", "dissolving"}}
C20_StateMachine ==
    [][interactionState' # interactionState
          => << interactionState, interactionState' >> \in Edges]_vars

\* C21: whenever the input is disabled (interactionState is 'sending' or
\* 'receiving') it is eventually enabled again, even if the server sends no
\* further frame.
C21_NeverAHang ==
    InputDisabled(interactionState) ~> ~InputDisabled(interactionState)

\* C22: a frame that cannot be parsed leaves the channel open and the
\* interaction state, the pending buffer and the displayed answer as they
\* were, and an answer frame that arrives after it is put in the buffer as
\* usual.
Unparseable == {i \in DOMAIN consoleLog : consoleLog[i].type = "unparseable"}
ParseFails == Len(consoleLog') > Len(consoleLog)
                 /\ consoleLog'[Len(consoleLog')].type = "unparseable"
AnswerArrives(t) == server[t] \in {"sent", "acked"} /\ server'[t] = "answered"
C22_UnparseableFrame ==
    /\ [][ParseFails
          => UNCHANGED << wsReadyState, isConnected, reconnectTimer,
                          interactionState, pendingResponseRef,
                          currentResponse >>]_vars
    /\ [][\A t \in Turns : (Unparseable # {} /\ AnswerArrives(t))
          => (pendingResponseRef' = Answer(t) /\ respondTimer'[t] = RespondDelay)]_vars

C22_Witness ==
    /\ \E i \in Unparseable : consoleLog[i].settled = 0
    /\ server[1] = "answered"
    /\ currentResponse = Answer(1)
    /\ wsReadyState = "open"
    /\ isConnected

\* C24: the arrival of a frame, of any kind, leaves the displayed answer
\* (currentResponse) as it was; it changes at most the pending buffer and
\* the interaction state of the coordinator's display state.
FrameArrives ==
    \/ consoleLog' # consoleLog
    \/ streamed' # streamed
    \/ hasBootedUp' # hasBootedUp
    \/ \E t \in Turns : /\ server'[t] # server[t]
                         /\ server'[t] \in {"acked", "streaming", "answered", "error"}
C24_DisplayOwnedByCoordinator ==
    [][FrameArrives
          => UNCHANGED << currentResponse, shouldDissolveResponse,
                          isDissolutionCompleteRef >>]_vars

C24_Witness ==
    /\ currentResponse = Answer(1)
    /\ pendingResponseRef = Answer(2)
    /\ server[2] = "answered"

\* C26: a heartbeat_ack frame, or a frame of a type without a case in the
\* dispatcher, leaves the interaction state, the pending buffer and the
\* displayed answer as they were, whatever the coordinator's state.
LoggedOther(type) ==
    /\ Len(consoleLog') > Len(consoleLog)
    /\ consoleLog'[Len(consoleLog')].type = type
C26_UnknownFrameIgnored ==
    [][\A type \in OtherTypes : LoggedOther(type)
          => UNCHANGED << interactionState, pendingResponseRef,
                          currentResponse >>]_vars

C26_Witness ==
    /\ \E i \in DOMAIN consoleLog : consoleLog[i].type = "heartbeat_ack"
    /\ interactionState = "dissolving"
    /\ currentResponse # Empty
    /\ dissolveTween \notin {NoTimer, DissolveTweenMs}

\* C23: for debounceTime (1500 ms) after the previous answer has completed
\* the gate sends no new message at once: a call of window.sendMessage made
\* in that window (with the component rendered since its last change) writes
\* nothing to the channel.
C23_CooldownAfterAnswer ==
    [][(calls' # calls /\ answerWindow.left # NoTimer /\ exposed = Rendered)
          => wire' = wire]_vars

\* C25: at every moment at most one socket of the page session is
\* connecting or open, and a new socket is created only when the one before
\* it is no longer live.
LiveSockets == orphans + Orphaned(wsReadyState)
SocketCreated == wsReadyState' = "connecting" /\ wsReadyState # "connecting"
C28_NoReconnectAfterUnmount ==
    [][~mounted => ~SocketCreated]_vars

\* C27: whenever a sendMessageToServer call ends its waits and sets
\* 'responding', the answer it installs as currentResponse is not empty.
C27_InstalledAnswerNonEmpty ==
    [][\A t \in Turns : Displays(t)
          => (interactionState' = "responding" /\ currentResponse' # Empty)]_vars

\* C29: a message held by the gate while the channel is disconnected is
\* written to the channel once the channel is connected again (unless a
\* later message has taken its place in the slot): it does not stay pending
\* for ever.
OnWire(m) == \E i \in DOMAIN wire : wire[i] = m
C29_HeldWhileDisconnectedIsSent ==
    \A m \in 1..MaxCalls :
        (pendingMessage = m /\ ~isConnected /\ mounted)
            ~> (OnWire(m) \/ pendingMessage # m \/ ~mounted)

\* C30: a call of the gate's sendMessage whose forwarding fails (the socket
\* is not open) returns false, leaves isDebouncing false, arms no debounce
\* timer, writes nothing and leaves the pending slot as it was.
Rejected ==
    /\ calls' # calls
    /\ exposed.isConnected
    /\ ~exposed.isDebouncing
    /\ ~Dispatched(wsReadyState)
C30_FailedSendLeavesNoCooldown ==
    [][Rejected
          => (/\ returned' = FALSE
              /\ isDebouncing' = FALSE
              /\ debounceTimers' = debounceTimers
              /\ UNCHANGED << pendingMessage, wire, resendTimers >>)]_vars

C30_Witness ==
    /\ calls = 1
    /\ returned = FALSE
    /\ wire = << >>
    /\ pendingMessage = Null
    /\ ~isDebouncing
    /\ debounceTimers = << >>

====
